---- MODULE Spec2Model ----
(***************************************************************************)
(* The fuzzy search engine and the admin lockout counter of main.py.       *)
(*                                                                         *)
(* A Python str is a sequence of one-character strings; a float score is   *)
(* an exact rational <<numerator, denominator>> in lowest terms, and the   *)
(* pair with denominator 0 stands for a raised ZeroDivisionError.          *)
(***************************************************************************)
EXTENDS Integers, Sequences, FiniteSets, TLC

VARIABLES
    pc,             \* position of the operation under way
    a, b, c,        \* the strings given to levenshtein_distance
    s1, s2,         \* arguments of the active levenshtein_distance frame
    depth,          \* levenshtein_distance frames below the active one
    swaps,          \* recursive self-calls made so far
    i, j,           \* loop indices of lines 29 and 31
    previous_row, current_row,
    result,         \* value returned by levenshtein_distance
    dist,           \* distances measured between a, b and c
    query, text, threshold,
    score,          \* value returned by fuzzy_match
    groups,         \* the records given to fuzzy_search
    results,        \* the list returned by fuzzy_search
    lockout_data,   \* the module global of line 19
    now,            \* datetime.now(), in hours
    password_ok,    \* whether the last login carried ADMIN_PASSWORD
    status          \* HTTP status of the last admin_login call, 0 before the first

vars == <<pc, a, b, c, s1, s2, depth, swaps, i, j, previous_row, current_row,
          result, dist, query, text, threshold, score, groups, results,
          lockout_data, now, password_ok, status>>

distVars  == <<a, b, c, s1, s2, depth, swaps, i, j, previous_row, current_row,
               result, dist>>
matchVars == <<query, text, threshold, score>>
searchVars == <<groups, results>>
loginVars == <<lockout_data, now, password_ok, status>>

None == "None"

\* lockout_data["locked_until"] is None, or else <<t>> for the datetime t
NoLock == <<>>

----------------------------------------------------------------------------
(* Bounds of the model *)

MaxStrLen == 4      \* longest enumerated argument of a levenshtein_distance run
MaxMetricLen == 3   \* longest enumerated string of a measured triple
MaxDepth == 3       \* frames the model lets levenshtein_distance stack up

Letters == {"a", "b"}

\* All strings over alphabet S of length at most n
StrsUpTo(S, n) == UNION {[1..k -> S] : k \in 0..n}

kitten  == <<"k", "i", "t", "t", "e", "n">>
sitting == <<"s", "i", "t", "t", "i", "n", "g">>

----------------------------------------------------------------------------
(* levenshtein_distance, lines 22-37 *)

Min2(x, y) == IF x <= y THEN x ELSE y
Max2(x, y) == IF x >= y THEN x ELSE y
Last(s) == s[Len(s)]

\* mutant: the swap is also taken for arguments of equal length
SwapNeededOrEqual(x, y) == Len(x) <= Len(y)

\* line 23: the argument order is swapped when the first is strictly shorter
SwapNeeded(x, y) == Len(x) < Len(y)

\* mutant: the length of the empty argument is returned
EmptyDistanceOfShorter(x, y) == Len(y)

\* line 26: the distance to the empty string
EmptyDistance(x, y) == Len(x)

\* line 28: range(len(s2) + 1), held 1-based: previous_row[k + 1] is Python's [k]
FirstRow(y) == [k \in 1..(Len(y) + 1) |-> k - 1]

\* mutant: a substitution is charged even when the characters are equal
CellAlwaysCharged(prev, cur, jj, c1, c2) ==
    LET insertions == prev[jj + 2] + 1
        deletions == cur[jj + 1] + 1
        substitutions == prev[jj + 1] + 1
    IN Min2(Min2(insertions, deletions), substitutions)

\* lines 32-35: the cell appended to current_row at column jj (0-based)
Cell(prev, cur, jj, c1, c2) ==
    LET insertions == prev[jj + 2] + 1
        deletions == cur[jj + 1] + 1
        substitutions == prev[jj + 1] + (IF c1 # c2 THEN 1 ELSE 0)
    IN Min2(Min2(insertions, deletions), substitutions)

\* lines 30-35: the row for character c1, grown from cur; the column j of
\* line 31 is the number of cells already appended, Len(cur) - 1
RECURSIVE BuildRow(_, _, _, _)
BuildRow(prev, cur, c1, y) ==
    IF Len(cur) > Len(y) THEN cur
    ELSE BuildRow(prev, Append(cur, Cell(prev, cur, Len(cur) - 1, c1, y[Len(cur)])), c1, y)

\* lines 29-36: the rows from index ii of x on; each row is complete
\* (len(s2) + 1 cells) before it becomes previous_row
RECURSIVE Rows(_, _, _, _)
Rows(prev, x, y, ii) ==
    IF ii >= Len(x) THEN prev
    ELSE LET row == BuildRow(prev, <<ii + 1>>, x[ii + 1], y)
         IN CASE Len(row) = Len(y) + 1 -> Rows(row, x, y, ii + 1)

RECURSIVE levenshtein_distance(_, _)
levenshtein_distance(x, y) ==
    IF Len(x) < Len(y) THEN levenshtein_distance(y, x)
    ELSE IF Len(y) = 0 THEN EmptyDistance(x, y)
    ELSE Last(Rows(FirstRow(y), x, y, 0))

----------------------------------------------------------------------------
(* levenshtein_distance step by step: one action per statement *)

DistInputs == (StrsUpTo(Letters, MaxStrLen) \X StrsUpTo(Letters, MaxStrLen))
                  \cup {<<kitten, sitting>>, <<sitting, kitten>>}

Idle ==
    /\ dist = None
    /\ query = <<>> /\ text = <<>> /\ threshold = <<0, 1>> /\ score = None
    /\ groups = <<>> /\ results = None
    /\ lockout_data = [attempts |-> 0, locked_until |-> NoLock]
    /\ now = 0 /\ password_ok = FALSE /\ status = 0

InitDistance ==
    /\ \E p \in DistInputs : a = p[1] /\ b = p[2] /\ s1 = p[1] /\ s2 = p[2]
    /\ c = <<>>
    /\ pc = "entry"
    /\ depth = 0 /\ swaps = 0
    /\ i = 0 /\ j = 0
    /\ previous_row = <<>> /\ current_row = <<>>
    /\ result = None
    /\ Idle

otherVars == <<dist, matchVars, searchVars, loginVars>>

\* lines 23-24: the recursive call with the arguments swapped
Swap ==
    /\ pc = "entry" /\ SwapNeeded(s1, s2) /\ depth < MaxDepth
    /\ s1' = s2 /\ s2' = s1
    /\ depth' = depth + 1 /\ swaps' = swaps + 1
    /\ UNCHANGED <<pc, a, b, c, i, j, previous_row, current_row, result, otherVars>>

\* lines 25-26
EmptyReturn ==
    /\ pc = "entry" /\ ~SwapNeeded(s1, s2) /\ Len(s2) = 0
    /\ result' = EmptyDistance(s1, s2)
    /\ pc' = "return"
    /\ UNCHANGED <<a, b, c, s1, s2, depth, swaps, i, j, previous_row, current_row, otherVars>>

\* line 28
StartRows ==
    /\ pc = "entry" /\ ~SwapNeeded(s1, s2) /\ Len(s2) # 0
    /\ previous_row' = FirstRow(s2)
    /\ i' = 0
    /\ pc' = "outer"
    /\ UNCHANGED <<a, b, c, s1, s2, depth, swaps, j, current_row, result, otherVars>>

\* lines 29-30
OuterStep ==
    /\ pc = "outer" /\ i < Len(s1)
    /\ current_row' = <<i + 1>>
    /\ j' = 0
    /\ pc' = "inner"
    /\ UNCHANGED <<a, b, c, s1, s2, depth, swaps, i, previous_row, result, otherVars>>

\* lines 31-35
InnerStep ==
    /\ pc = "inner" /\ j < Len(s2)
    /\ current_row' = Append(current_row,
                             Cell(previous_row, current_row, j, s1[i + 1], s2[j + 1]))
    /\ j' = j + 1
    /\ UNCHANGED <<pc, a, b, c, s1, s2, depth, swaps, i, previous_row, result, otherVars>>

\* line 36
RowDone ==
    /\ pc = "inner" /\ j = Len(s2)
    /\ previous_row' = current_row
    /\ i' = i + 1
    /\ pc' = "outer"
    /\ UNCHANGED <<a, b, c, s1, s2, depth, swaps, j, current_row, result, otherVars>>

\* line 37
Finish ==
    /\ pc = "outer" /\ i = Len(s1)
    /\ result' = Last(previous_row)
    /\ pc' = "return"
    /\ UNCHANGED <<a, b, c, s1, s2, depth, swaps, i, j, previous_row, current_row, otherVars>>

\* line 24: the caller returns the callee's value unchanged
ReturnToCaller ==
    /\ pc = "return" /\ depth > 0
    /\ depth' = depth - 1
    /\ s1' = s2 /\ s2' = s1        \* the caller's own arguments
    /\ UNCHANGED <<pc, a, b, c, swaps, i, j, previous_row, current_row, result, otherVars>>

\* the outermost frame returns
ReturnToUser ==
    /\ pc = "return" /\ depth = 0
    /\ pc' = "done"
    /\ UNCHANGED <<a, b, c, s1, s2, depth, swaps, i, j, previous_row, current_row, result, otherVars>>

NextDistance ==
    \/ Swap
    \/ EmptyReturn
    \/ StartRows
    \/ OuterStep
    \/ InnerStep
    \/ RowDone
    \/ Finish
    \/ ReturnToCaller
    \/ ReturnToUser

SpecDistance == InitDistance /\ [][NextDistance]_vars

\* Python runs a call to its end: no step of it is postponed for ever
FairSpecDistance == SpecDistance /\ WF_vars(NextDistance)

\* the step-by-step run returns what the operator computes
StepsAgree == pc = "done" => result = levenshtein_distance(a, b)

----------------------------------------------------------------------------
(* The reference definition of edit distance, by cases on the first characters *)

RECURSIVE RefDistance(_, _)
RefDistance(x, y) ==
    IF Len(y) = 0 THEN Len(x)
    ELSE IF Len(x) = 0 THEN Len(y)
    ELSE IF Head(x) = Head(y) THEN RefDistance(Tail(x), Tail(y))
    ELSE 1 + Min2(Min2(RefDistance(Tail(x), y), RefDistance(x, Tail(y))),
                  RefDistance(Tail(x), Tail(y)))

\* C1: for every pair of strings, the empty ones included, levenshtein_distance
\* returns the minimum number of single-character insertions, deletions and
\* substitutions given by the reference recursive definition; the distance from
\* the empty string to s is the length of s, and kitten -> sitting is 3.
C1_DistanceIsMinimalEdits ==
    pc = "done" =>
        /\ result = RefDistance(a, b)
        /\ (a = <<>> => result = Len(b))
        /\ (a = kitten /\ b = sitting => result = 3)

C1_Witness == pc = "done" /\ a = kitten /\ b = sitting /\ result = 3

\* C9: every call terminates and makes at most one recursive self-call: the swap
\* happens at most once, only when the first argument is strictly shorter than
\* the second, and never once the rows are under way; the rows then have
\* length(shorter) + 1 entries.
C9_SingleSwapAndTermination ==
    /\ [](/\ swaps <= 1
          /\ depth <= 1
          /\ (swaps = 1 => Len(a) < Len(b))
          /\ (pc \in {"outer", "inner"} =>
                 Len(previous_row) = Min2(Len(a), Len(b)) + 1)
          /\ (pc = "inner" =>
                 Len(current_row) = j + 1 /\ j + 1 <= Min2(Len(a), Len(b)) + 1))
    /\ [][pc # "entry" => swaps' = swaps]_vars
    /\ <>(pc = "done")

C9_Witness ==
    /\ pc = "done" /\ swaps = 1 /\ Len(a) >= 1
    /\ Len(previous_row) = Len(a) + 1

----------------------------------------------------------------------------
(* levenshtein_distance as a function of its arguments: a, b and c measured *)

MetricInputs ==
    (StrsUpTo(Letters, MaxMetricLen) \X StrsUpTo(Letters, MaxMetricLen)
        \X StrsUpTo(Letters, MaxMetricLen))
    \cup {<<kitten, sitting, <<>> >>, <<kitten, <<>>, sitting>>}

InitMetric ==
    /\ \E p \in MetricInputs : a = p[1] /\ b = p[2] /\ c = p[3]
    /\ pc = "measure"
    /\ s1 = <<>> /\ s2 = <<>>
    /\ depth = 0 /\ swaps = 0
    /\ i = 0 /\ j = 0
    /\ previous_row = <<>> /\ current_row = <<>>
    /\ result = None
    /\ Idle

Measure ==
    /\ pc = "measure"
    /\ dist' = [aa |-> levenshtein_distance(a, a),
                ab |-> levenshtein_distance(a, b),
                ba |-> levenshtein_distance(b, a),
                bc |-> levenshtein_distance(b, c),
                ac |-> levenshtein_distance(a, c)]
    /\ pc' = "measured"
    /\ UNCHANGED <<a, b, c, s1, s2, depth, swaps, i, j, previous_row, current_row,
                   result, matchVars, searchVars, loginVars>>

NextMetric == Measure

SpecMetric == InitMetric /\ [][NextMetric]_vars

\* C8: levenshtein_distance is a metric: distance(a, a) = 0, distance(a, b) =
\* distance(b, a) whichever argument is longer, and distance(a, c) <=
\* distance(a, b) + distance(b, c).
C8_Metric ==
    pc = "measured" =>
        /\ dist.aa = 0
        /\ dist.ab = dist.ba
        /\ dist.ac <= dist.ab + dist.bc

C8_Witness ==
    /\ pc = "measured"
    /\ Len(a) < Len(b) /\ Len(c) < Len(b)
    /\ dist.ab = dist.ba /\ dist.ab > 0 /\ dist.bc > 0
    /\ dist.ac = dist.ab + dist.bc

----------------------------------------------------------------------------
(* Scores: Python floats as exact rationals *)

RECURSIVE GCD(_, _)
GCD(x, y) == IF y = 0 THEN x ELSE GCD(y, x % y)

Abs(x) == IF x < 0 THEN -x ELSE x

\* the rational n/d, d > 0, in lowest terms
Rat(n, d) == LET g == GCD(Abs(n), d) IN <<n \div g, d \div g>>

Zero == <<0, 1>>
One == <<1, 1>>
ZeroDivisionError == <<0, 0>>

Raised(x) == x[2] = 0
RLess(x, y) == x[1] * y[2] < y[1] * x[2]
RLeq(x, y) == x[1] * y[2] <= y[1] * x[2]
RMinus(x, y) == Rat(x[1] * y[2] - y[1] * x[2], x[2] * y[2])
RTimes(x, y) == Rat(x[1] * y[1], x[2] * y[2])
RMax(x, y) == IF RLess(x, y) THEN y ELSE x

\* Python's true division of two ints
TrueDiv(n, d) == IF d = 0 THEN ZeroDivisionError ELSE Rat(n, d)

----------------------------------------------------------------------------
(* fuzzy_match, lines 40-63 *)

MaxQueryLen == 3
MaxTextLen == 4

MatchChars == {"a", "B", " "}
Thresholds == {<<-1, 2>>, <<0, 1>>, <<3, 10>>, <<1, 2>>, <<1, 1>>, <<3, 2>>}
DefaultThreshold == <<3, 10>>

cat == <<"c", "a", "t">>
concatenate == <<"c", "o", "n", "c", "a", "t", "e", "n", "a", "t", "e">>
a_cat_store == <<"a", " ", "c", "a", "t", " ", "s", "t", "o", "r", "e">>
wrold == <<"w", "r", "o", "l", "d">>
hello_world == <<"h", "e", "l", "l", "o", " ", "w", "o", "r", "l", "d">>
xyz == <<"x", "y", "z">>
completely_different_text == <<"c", "o", "m", "p", "l", "e", "t", "e", "l", "y", " ", "d", "i", "f", "f", "e", "r", "e", "n", "t", " ", "t", "e", "x", "t">>
abcdefghij == <<"a", "b", "c", "d", "e", "f", "g", "h", "i", "j">>
abcdefgxyz == <<"a", "b", "c", "d", "e", "f", "g", "x", "y", "z">>

UpperCase == {"A", "B", "C", "F", "S"}
LowerOf == [ch \in UpperCase |->
               CASE ch = "A" -> "a" [] ch = "B" -> "b" [] ch = "C" -> "c"
                 [] ch = "F" -> "f" [] ch = "S" -> "s"]

\* str.lower(), lines 41-42
lower(s) == [k \in 1..Len(s) |-> IF s[k] \in UpperCase THEN LowerOf[s[k]] ELSE s[k]]

\* Python's `x in y` on two strings, lines 44 and 49
IsSubstring(x, y) ==
    \E k \in 0..(Len(y) - Len(x)) : SubSeq(y, k + 1, k + Len(x)) = x

Whitespace == {" ", "\t", "\n"}

\* the index after the word that starts at k: the next whitespace, or the end
WordEnd(t, k) ==
    LET stops == {e \in k..Len(t) : t[e] \in Whitespace}
    IN IF stops = {} THEN Len(t) + 1
       ELSE CHOOSE e \in stops : \A f \in stops : e <= f

\* str.split() with no separator, line 47: whitespace is skipped, then a word
\* runs to the next whitespace; no empty word is produced
RECURSIVE SplitFrom(_, _)
SplitFrom(t, k) ==
    IF k > Len(t) THEN <<>>
    ELSE IF t[k] \in Whitespace THEN SplitFrom(t, k + 1)
    ELSE <<SubSeq(t, k, WordEnd(t, k) - 1)>> \o SplitFrom(t, WordEnd(t, k))

split(t) == SplitFrom(t, 1)

\* mutant: only a text equal to the query is a full match
IsWholeText(x, y) == x = y

\* line 44
MatchesText(q, t) == IsSubstring(q, t)

\* lines 48-49
MatchesWord(q, words) == \E k \in 1..Len(words) : IsSubstring(q, words[k])

\* mutant: every word is compared, whatever its length
AnyWord(word, q) == TRUE

\* line 54
LongEnough(word, q) == Len(word) >= Len(q)

\* lines 53-59, from word k on; max_score is the best score so far
RECURSIVE ScoreWords(_, _, _, _)
ScoreWords(q, words, k, max_score) ==
    IF k > Len(words) THEN max_score
    ELSE IF ~LongEnough(words[k], q) THEN ScoreWords(q, words, k + 1, max_score)
    ELSE LET distance == levenshtein_distance(q, words[k])
             max_len == Max2(Len(q), Len(words[k]))
             ratio == TrueDiv(distance, max_len)
         IN IF Raised(ratio) THEN ZeroDivisionError
            ELSE LET word_score == RMinus(One, ratio)
                 IN ScoreWords(q, words, k + 1,
                               IF RLess(max_score, word_score) THEN word_score
                               ELSE max_score)

\* line 61
Accepted(max_score, th) == RLeq(RMinus(One, th), max_score)

fuzzy_match(q0, t0, th) ==
    LET q == lower(q0)
        t == lower(t0)
        words == split(t)
    IN IF MatchesText(q, t) THEN One
       ELSE IF MatchesWord(q, words) THEN <<9, 10>>
       ELSE LET max_score == ScoreWords(q, words, 1, Zero)
            IN IF Raised(max_score) THEN ZeroDivisionError
               ELSE IF Accepted(max_score, th) THEN max_score
               ELSE Zero

MatchInputs ==
    (StrsUpTo(MatchChars, MaxQueryLen) \X StrsUpTo(MatchChars, MaxTextLen) \X Thresholds)
    \cup {<<cat, concatenate, DefaultThreshold>>,
          <<cat, a_cat_store, DefaultThreshold>>,
          <<wrold, hello_world, DefaultThreshold>>,
          <<xyz, completely_different_text, DefaultThreshold>>,
          <<abcdefghij, abcdefgxyz, DefaultThreshold>>}

IdleDistance ==
    /\ a = <<>> /\ b = <<>> /\ c = <<>>
    /\ s1 = <<>> /\ s2 = <<>>
    /\ depth = 0 /\ swaps = 0
    /\ i = 0 /\ j = 0
    /\ previous_row = <<>> /\ current_row = <<>>
    /\ result = None
    /\ dist = None

IdleLogin ==
    /\ lockout_data = [attempts |-> 0, locked_until |-> NoLock]
    /\ now = 0 /\ password_ok = FALSE /\ status = 0

InitMatch ==
    /\ \E p \in MatchInputs : query = p[1] /\ text = p[2] /\ threshold = p[3]
    /\ score = None
    /\ pc = "match"
    /\ groups = <<>> /\ results = None
    /\ IdleDistance /\ IdleLogin

Match ==
    /\ pc = "match"
    /\ score' = fuzzy_match(query, text, threshold)
    /\ pc' = "matched"
    /\ UNCHANGED <<query, text, threshold, distVars, searchVars, loginVars>>

NextMatch == Match

SpecMatch == InitMatch /\ [][NextMatch]_vars

\* the whitespace-delimited tokens of t: its maximal runs of non-whitespace
Tokens(t) ==
    {SubSeq(t, m, n) : <<m, n>> \in
        {r \in (1..Len(t)) \X (1..Len(t)) :
            /\ r[1] <= r[2]
            /\ \A k \in r[1]..r[2] : t[k] \notin Whitespace
            /\ (r[1] = 1 \/ t[r[1] - 1] \in Whitespace)
            /\ (r[2] = Len(t) \/ t[r[2] + 1] \in Whitespace)}}

\* 1 - distance(q, w) / max(length(q), length(w))
Ratio(q, w) ==
    RMinus(One, Rat(levenshtein_distance(q, w), Max2(Len(q), Len(w))))

\* the best ratio over the tokens at least as long as q, 0 when there is none
BestRatio(q, t) ==
    LET ratios == {Ratio(q, w) : w \in {v \in Tokens(t) : Len(v) >= Len(q)}}
    IN IF ratios = {} THEN Zero
       ELSE CHOOSE r \in ratios : \A o \in ratios : RLeq(o, r)

\* C2: when the folded query is not a substring of the folded text, only the
\* tokens at least as long as the query count; the score is the best ratio over
\* them when that is >= 1 - threshold (boundary included) and exactly 0
\* otherwise; "wrold" against "hello world" at 0.3 scores 0 (best ratio 0.6).
C2_FallbackScore ==
    pc = "matched" /\ ~IsSubstring(lower(query), lower(text)) =>
        /\ score = (IF RLeq(RMinus(One, threshold), BestRatio(lower(query), lower(text)))
                    THEN BestRatio(lower(query), lower(text))
                    ELSE Zero)
        /\ (query = wrold /\ text = hello_world /\ threshold = DefaultThreshold =>
                BestRatio(query, text) = <<3, 5>> /\ score = Zero)

\* a fallback match exactly on the boundary, beside a token too short to count
C2_Witness ==
    /\ pc = "matched" /\ ~IsSubstring(lower(query), lower(text))
    /\ \E w \in Tokens(lower(text)) : Len(w) < Len(query)
    /\ RLess(Zero, score) /\ RLess(score, One)
    /\ score = RMinus(One, threshold)

\* q lies inside some token of t and is itself no token of t
OnlyInsideToken(q, t) ==
    /\ q # <<>>
    /\ \E w \in Tokens(t) : IsSubstring(q, w)
    /\ q \notin Tokens(t)

\* C3: score("cat", "concatenate") is exactly 0.9: a query that occurs only
\* inside a larger single token is scored 0.9 by rule 2, not 1.0 by rule 1.
C3_InsideTokenScoresNineTenths ==
    pc = "matched" =>
        /\ (query = cat /\ text = concatenate => score = <<9, 10>>)
        /\ (OnlyInsideToken(lower(query), lower(text)) => score = <<9, 10>>)

\* C7: fuzzy_match never faults and returns a value in [0, 1] for every query,
\* text and threshold; an empty query scores 1.0 on every text and an empty
\* text scores 0.0 for every non-empty query.
C7_TotalAndBounded ==
    pc = "matched" =>
        /\ ~Raised(score)
        /\ RLeq(Zero, score) /\ RLeq(score, One)
        /\ (query = <<>> => score = One)
        /\ (text = <<>> /\ query # <<>> => score = Zero)

\* a non-empty query against a text of whitespace only
C7_Witness ==
    /\ pc = "matched"
    /\ query # <<>> /\ text # <<>> /\ \A k \in 1..Len(text) : text[k] \in Whitespace
    /\ score = Zero

----------------------------------------------------------------------------
(* fuzzy_search, lines 66-77 *)

MaxGroups == 3

soccer == <<"s", "o", "c", "c", "e", "r">>
Soccer_Fans == <<"S", "o", "c", "c", "e", "r", " ", "F", "a", "n", "s">>
weekly_matches == <<"w", "e", "e", "k", "l", "y", " ", "m", "a", "t", "c", "h", "e", "s">>
Book_Club == <<"B", "o", "o", "k", " ", "C", "l", "u", "b">>
soccer_novels_discussion == <<"s", "o", "c", "c", "e", "r", " ", "n", "o", "v", "e", "l", "s", " ", "d", "i", "s", "c", "u", "s", "s", "i", "o", "n">>
abab == <<"a", "b", "a", "b">>
Abab_b == <<"A", "b", "a", "b", " ", "b">>
abaa == <<"a", "b", "a", "a">>
aabb == <<"a", "a", "b", "b">>
bb == <<"b", "b">>

SearchQueries == {abab, bb}
SearchThresholds == {<<0, 1>>, DefaultThreshold, <<1, 2>>}
GroupNames == {Abab_b, abaa, aabb, bb}
\* Python's None in the description column: no str, which holds single characters
NoDescription == <<"None">>
GroupDescriptions == {NoDescription, abab}

\* a Group row: its place in the input is its identity
GroupsOf(n) ==
    {[k \in 1..n |-> [id |-> k, name |-> f[k][1], description |-> f[k][2]]] :
        f \in [1..n -> GroupNames \X GroupDescriptions]}

SoccerGroups ==
    <<[id |-> 1, name |-> Soccer_Fans, description |-> weekly_matches],
      [id |-> 2, name |-> Book_Club, description |-> soccer_novels_discussion]>>

\* line 69
NameScore(q, group, th) == fuzzy_match(q, group.name, th)

\* line 70: group.description or ""
DescScore(q, group, th) ==
    fuzzy_match(q, IF group.description = NoDescription THEN <<>> ELSE group.description, th)

\* mutant: the description counts as much as the name
Unweighted(desc_score) == desc_score

\* line 71: desc_score * 0.7
Weighted(desc_score) == RTimes(desc_score, <<7, 10>>)

\* lines 69-71
TotalScore(q, group, th) ==
    LET name_score == NameScore(q, group, th)
        desc_score == DescScore(q, group, th)
    IN IF Raised(name_score) \/ Raised(desc_score) THEN ZeroDivisionError
       ELSE RMax(name_score, Weighted(desc_score))

\* mutant: a record whose score is 0 is kept too
KeptFromZero(total_score) == RLeq(Zero, total_score)

\* line 73
Kept(total_score) == RLess(Zero, total_score)

\* lines 67-74: the (group, total_score) pairs appended to results, in input order
RECURSIVE Scored(_, _, _, _)
Scored(q, gs, th, k) ==
    IF k > Len(gs) THEN <<>>
    ELSE LET total_score == TotalScore(q, gs[k], th)
         IN (IF Kept(total_score) THEN <<<<gs[k], total_score>>>> ELSE <<>>)
                \o Scored(q, gs, th, k + 1)

Reverse(s) == [k \in 1..Len(s) |-> s[Len(s) + 1 - k]]

\* whether pair x sorts strictly before pair y: by the key x[1] of line 76,
\* every comparison reversed under reverse=True
Before(x, y, reverse) == IF reverse THEN RLess(y[2], x[2]) ELSE RLess(x[2], y[2])

\* r put into the sorted list s behind every entry it does not sort before
RECURSIVE Insert(_, _, _)
Insert(s, r, reverse) ==
    IF s = <<>> THEN <<r>>
    ELSE IF Before(r, s[1], reverse) THEN <<r>> \o s
    ELSE <<s[1]>> \o Insert(Tail(s), r, reverse)

\* list.sort on the first k entries of s: a stable sort, entries that compare
\* equal keep their order
RECURSIVE StableSort(_, _, _)
StableSort(s, k, reverse) ==
    IF k = 0 THEN <<>>
    ELSE Insert(StableSort(s, k - 1, reverse), s[k], reverse)

\* mutant: sorted by ascending score and then reversed
SortThenReverse(pairs) == Reverse(StableSort(pairs, Len(pairs), FALSE))

\* line 76: results.sort(key=lambda x: x[1], reverse=True)
SortReverse(pairs) == StableSort(pairs, Len(pairs), TRUE)

\* lines 66-77
fuzzy_search(q, gs, th) ==
    LET sorted == SortReverse(Scored(q, gs, th, 1))
    IN [k \in 1..Len(sorted) |-> sorted[k][1]]

SearchInputs ==
    (SearchQueries \X (UNION {GroupsOf(n) : n \in 0..MaxGroups}) \X SearchThresholds)
    \cup {<<soccer, SoccerGroups, DefaultThreshold>>}

InitSearch ==
    /\ \E p \in SearchInputs : query = p[1] /\ groups = p[2] /\ threshold = p[3]
    /\ text = <<>> /\ score = None
    /\ results = None
    /\ pc = "search"
    /\ IdleDistance /\ IdleLogin

Search ==
    /\ pc = "search"
    /\ results' = fuzzy_search(query, groups, threshold)
    /\ pc' = "searched"
    /\ UNCHANGED <<groups, matchVars, distVars, loginVars>>

NextSearch == Search

SpecSearch == InitSearch /\ [][NextSearch]_vars

Total(group) == TotalScore(query, group, threshold)

\* C4: the result is in non-increasing order of total = max(nameScore,
\* descriptionScore * 0.7), and records of equal total keep their input order;
\* for "soccer", "Soccer Fans" (1.0) comes before the record that matches only
\* in its description (0.7).
C4_SortedAndStable ==
    pc = "searched" =>
        /\ LET total == [k \in 1..Len(results) |-> Total(results[k])]
           IN \A m, n \in 1..Len(results) :
                  m < n =>
                      /\ RLeq(total[n], total[m])
                      /\ (total[m] = total[n] => results[m].id < results[n].id)
        /\ (query = soccer /\ groups = SoccerGroups =>
                /\ results = SoccerGroups
                /\ Total(groups[1]) = One /\ Total(groups[2]) = <<7, 10>>)

\* two records of equal total behind a later record of higher total
C4_Witness ==
    /\ pc = "searched" /\ Len(results) = 3
    /\ results[1].id = 3 /\ results[2].id = 1 /\ results[3].id = 2
    /\ Total(results[2]) = Total(results[3])
    /\ results[2].name # results[3].name
    /\ RLess(Total(results[2]), Total(results[1]))

\* C5: the result holds exactly the input records of non-zero total, each once:
\* none of total 0, none dropped, duplicated or added; an empty input gives an
\* empty result, and an absent description is scored as the empty text.
C5_ExactlyTheMatches ==
    pc = "searched" =>
        /\ \A k \in 1..Len(results) :
               /\ results[k].id \in 1..Len(groups)
               /\ results[k] = groups[results[k].id]
               /\ Total(results[k]) # Zero
        /\ \A m, n \in 1..Len(results) : m # n => results[m].id # results[n].id
        /\ \A k \in 1..Len(groups) :
               Total(groups[k]) # Zero => \E m \in 1..Len(results) : results[m] = groups[k]
        /\ (groups = <<>> => results = <<>>)
        /\ \A k \in 1..Len(groups) :
               groups[k].description = NoDescription =>
                   /\ DescScore(query, groups[k], threshold) = fuzzy_match(query, <<>>, threshold)
                   /\ Total(groups[k]) = NameScore(query, groups[k], threshold)

\* some records are left out and some are kept, one without a description
C5_Witness ==
    /\ pc = "searched"
    /\ Len(groups) = 3 /\ Len(results) = 2
    /\ \E k \in 1..Len(groups) : Total(groups[k]) = Zero /\ groups[k].description = NoDescription
    /\ \E k \in 1..Len(results) : results[k].description = NoDescription

DescriptionOnly(group) ==
    /\ NameScore(query, group, threshold) = Zero
    /\ RLess(Zero, DescScore(query, group, threshold))

NameMatch(group) == RLess(Zero, NameScore(query, group, threshold))

\* a description-only record never has the higher total and never stands
\* ahead of a name-matching record unless their totals are equal
NeverOutranks ==
    LET only == {x \in 1..Len(groups) : DescriptionOnly(groups[x])}
        named == {y \in 1..Len(groups) : NameMatch(groups[y])}
    IN /\ \A x \in only, y \in named :
              ~RLess(Total(groups[y]), Total(groups[x]))
       /\ \A m, n \in 1..Len(results) :
              m < n /\ results[m].id \in only /\ results[n].id \in named =>
                  Total(results[m]) = Total(results[n])

\* C6 as claimed: for any query and any threshold a record that matches only
\* through its description never gets a strictly higher total than a record
\* that matches through its name, and is never placed ahead of it for its score.
C6_DescriptionNeverOutranksName == pc = "searched" => NeverOutranks

\* C6 as amended: the same for every threshold of at most 0.3, the default
\* threshold included.
C6_DescriptionNeverOutranksNameUpToDefault ==
    pc = "searched" /\ RLeq(threshold, DefaultThreshold) => NeverOutranks

\* a description-only record and a fuzzy name match, at the default threshold
C6_Witness ==
    /\ pc = "searched" /\ threshold = DefaultThreshold
    /\ Len(results) >= 2
    /\ \E m, n \in 1..Len(results) :
           /\ m < n
           /\ NameMatch(results[m]) /\ RLess(Total(results[m]), One)
           /\ DescriptionOnly(results[n]) /\ Total(results[n]) = <<7, 10>>

----------------------------------------------------------------------------
(* admin_login, lines 179-210, and the clock *)

MaxNow == 50        \* the clock stops here
MaxAttempts == 5    \* failed logins the model counts

MaxFailures == 3    \* line 201
LockHours == 24     \* line 202
TickHours == {1, 12}

\* mutant: the comparison of line 183 the wrong way round
LockedInThePast(data, t) ==
    data.locked_until # NoLock /\ data.locked_until[1] < t

\* line 183
IsLocked(data, t) ==
    data.locked_until # NoLock /\ t < data.locked_until[1]

InitLogin ==
    /\ lockout_data = [attempts |-> 0, locked_until |-> NoLock]
    /\ now = 0
    /\ password_ok = FALSE
    /\ status = 0
    /\ pc = "serving"
    /\ query = <<>> /\ text = <<>> /\ threshold = <<0, 1>> /\ score = None
    /\ groups = <<>> /\ results = None
    /\ IdleDistance

\* time passes between two requests
Tick ==
    /\ \E d \in TickHours : now + d <= MaxNow /\ now' = now + d
    /\ UNCHANGED <<pc, lockout_data, password_ok, status, distVars, matchVars, searchVars>>

\* lines 183-194
LoginWhileLocked ==
    /\ IsLocked(lockout_data, now)
    /\ \E ok \in BOOLEAN : password_ok' = ok
    /\ status' = 403
    /\ UNCHANGED <<pc, lockout_data, now, distVars, matchVars, searchVars>>

\* lines 196-198
LoginSuccess ==
    /\ ~IsLocked(lockout_data, now)
    /\ password_ok' = TRUE
    /\ lockout_data' = [attempts |-> 0, locked_until |-> NoLock]
    /\ status' = 200
    /\ UNCHANGED <<pc, now, distVars, matchVars, searchVars>>

\* lines 200-210
LoginFailure ==
    /\ ~IsLocked(lockout_data, now)
    /\ lockout_data.attempts < MaxAttempts
    /\ password_ok' = FALSE
    /\ LET attempts == lockout_data.attempts + 1
       IN IF attempts >= MaxFailures
          THEN /\ lockout_data' = [attempts |-> attempts,
                                   locked_until |-> <<now + LockHours>>]
               /\ status' = 403
          ELSE /\ lockout_data' = [lockout_data EXCEPT !.attempts = attempts]
               /\ status' = 401
    /\ UNCHANGED <<pc, now, distVars, matchVars, searchVars>>

NextLogin ==
    \/ Tick
    \/ LoginWhileLocked
    \/ LoginSuccess
    \/ LoginFailure

SpecLogin == InitLogin /\ [][NextLogin]_vars

LockInFuture == lockout_data.locked_until # NoLock /\ now < lockout_data.locked_until[1]
LockExpired == lockout_data.locked_until # NoLock /\ now >= lockout_data.locked_until[1]

\* C10: attempts goes back to 0 only by a login with the correct password made
\* while the account is not locked; while locked_until is in the future every
\* login, the correct password included, gets 403 and leaves attempts and
\* locked_until alone; the passing of time changes neither, so once a lock has
\* expired without a successful login a single wrong password locks the
\* account again for 24 hours.
C10_LockoutLifecycle ==
    [][/\ (lockout_data.attempts # 0 /\ lockout_data'.attempts = 0 =>
               status' = 200 /\ password_ok' /\ ~LockInFuture)
       /\ (now' = now /\ LockInFuture =>
               status' = 403 /\ lockout_data' = lockout_data)
       /\ (now' # now => lockout_data' = lockout_data)
       /\ (now' = now /\ LockExpired /\ ~password_ok' =>
               /\ status' = 403
               /\ lockout_data'.attempts = lockout_data.attempts + 1
               /\ lockout_data'.locked_until = <<now + LockHours>>)]_vars

\* locked again by the first wrong password after the lock ran out
C10_Witness ==
    /\ status = 403 /\ ~password_ok
    /\ lockout_data.attempts = MaxFailures + 1
    /\ now >= LockHours
    /\ lockout_data.locked_until = <<now + LockHours>>

====
